---- MODULE Spec2Model ----
(***************************************************************************)
(* State-machine model of the authentication and account-security core of *)
(* the restaurant application: login and lockout (accounts/signals.py,    *)
(* accounts/auth_backends.py), the password lifecycle and the             *)
(* security-question reset flow (accounts/views.py), re-authentication    *)
(* and role management (accounts/views.py).                               *)
(*                                                                         *)
(* Every view is one action that models the whole request handler.  The   *)
(* racing specification SpecRace splits the two read-modify-write         *)
(* handlers at the point where the row is read and where it is saved.     *)
(***************************************************************************)
EXTENDS Integers, Sequences, FiniteSets, TLC

\* ---------------------------------------------------------------- settings
LOCKOUT_MAX_FAILURES == 5
LOCKOUT_COOLDOWN_MINUTES == 15
PASSWORD_HISTORY_COUNT == 5
MIN_PASSWORD_AGE_DAYS == 1
REAUTH_TIMEOUT_MINUTES == 5
\* timedelta(days=1) in the clock's unit (minutes)
MinutesPerDay == 1440
\* len(new1) < 12 in change_password_view / reset_set_password_view
MinNewPasswordLen == 12

\* ------------------------------------------------------------------ bounds
\* usernames / primary keys are 1..MaxUserId; accounts 1..NumInitialUsers exist
\* at start, the other usernames match no account until registered
MaxUserId == 2
NumInitialUsers == 1
\* raw passwords of full length are 1..NumPasswords
NumPasswords == 4
\* raw security answers are 1..NumAnswers
NumAnswers == 2
\* the five-minute clock of the login and role specifications stops after
\* MaxTicks steps, the one-day clock of the password specifications after MaxDays
MaxTicks == 4
MaxDays == 2
\* the five-minute clock of the order and menu specifications
MaxShopTicks == 2
\* rows of the PasswordHistory table
MaxHistoryRows == 6
\* concurrent request handlers of SpecRace
NumHandlers == 2
\* keys the Order table hands out, and keys and initial rows of MenuItem
MaxOrderId == 1
MaxMenuId == 2
NumInitialMenuItems == 1
\* lengths of the action text and of the extra detail given to audit_log
MaxActionLen == 256
MaxExtraLen == 2
\* contents of an order-item formset, and names of a menu form
NumItemSets == 2
NumMenuNames == 2

None == -1
Usernames == 1..MaxUserId
Passwords == 1..NumPasswords
Roles == {"customer", "manager", "admin"}
Handlers == 1..NumHandlers

\* Form inputs besides the full-length passwords: the empty string, a
\* password of 4 characters, one of 8 characters, and one of 12 lower-case
\* letters
EmptyPw == 0
TinyPw == NumPasswords + 1
ShortPw == NumPasswords + 2
WeakPw == NumPasswords + 3
PasswordInputs == Passwords \cup {EmptyPw, TinyPw, ShortPw, WeakPw}

\* len(raw_password)
PwLen(p) ==
    IF p = EmptyPw THEN 0
    ELSE IF p = TinyPw THEN 4
    ELSE IF p = ShortPw THEN 8
    ELSE MinNewPasswordLen

\* the character classes of StrongPasswordValidator, in the order it tests them
CharClasses == <<"upper", "lower", "digit", "special">>
\* the classes a raw password has characters of
PwClasses(p) ==
    IF p = EmptyPw THEN {}
    ELSE IF p = WeakPw THEN {"lower"}
    ELSE {"upper", "lower", "digit", "special"}

\* StrongPasswordValidator.validate: the ValidationError it raises, which is
\* that of the first class the password has no character of; no view calls
\* validate_password, so no view runs it
StrongPasswordValidator_validate(password) ==
    LET missing == { i \in 1..Len(CharClasses) : CharClasses[i] \notin PwClasses(password) }
    IN IF missing = {} THEN {}
       ELSE {CharClasses[CHOOSE i \in missing : \A j \in missing : i <= j]}

\* A raw security answer: its text up to letter case (0 is the empty text),
\* whether it is typed in upper case, and whether it carries surrounding blanks
AnswerInputs == [text : 0..NumAnswers, upper : BOOLEAN, padded : BOOLEAN]
\* str.strip()
strip(a) == [a EXCEPT !.padded = FALSE]
\* truthiness of the stripped string
NonEmpty(a) == a.text # 0

\* request.POST["question"]: blank, one of SECURITY_QUESTION_CHOICES, anything else
BlankQuestion == 0
ListedQuestion == 1
UnlistedQuestion == 2

VARIABLES
    User,             \* accounts.User table: pk -> row (the username is the pk)
    PasswordHistory,  \* accounts.PasswordHistory table, in insertion order
    cache,            \* django cache: last_failed_auth:<username> -> ts | None
    session,          \* the client's server-side session
    now,              \* timezone.now(), in minutes
    resp,             \* response of the request handled by the last step
    audit,            \* the audit_log calls of the request handled by the last step
    verified_for,     \* history: the target of the session's last successful Step 2
    pw_log,           \* history: per account, the raw passwords it has held, oldest first
    lock_origin,      \* history: per account, the until of its last Open -> Locked transition
    streak,           \* history: per account, the failed logins in a row since it was Open with counter 0
    hpc,              \* SpecRace: per handler, its position
    hloc,             \* SpecRace: per handler, its local variables
    serial,           \* SpecRace history: the table a serial run of the saves gives
    Order,            \* orders.Order table with its order items: pk -> row
    MenuItem,         \* menu.MenuItem table: pk -> row
    seq               \* the AUTOINCREMENT sequence of each of the two tables

vars == <<User, PasswordHistory, cache, session, now, resp, audit,
          verified_for, pw_log, lock_origin, streak, hpc, hloc, serial,
          Order, MenuItem, seq>>

\* ------------------------------------------------------------------ hashers
\* django.contrib.auth.hashers: a one-way digest that check_password matches
\* against the raw value it was made from and no other.
make_password(raw) == <<"pbkdf2_sha256", raw>>
check_password(raw, hashed) == hashed = make_password(raw)

\* the blank security_answer_hash of an account without an answer
BlankHash == <<"", [text |-> 0, upper |-> FALSE, padded |-> FALSE]>>

\* mutant of check_answer: every answer matches
check_answer_any(raw, hashed) == TRUE

\* hash_answer / check_answer
hash_answer(raw) == make_password(strip(raw))
check_answer(raw, hashed) == check_password(strip(raw), hashed)

\* --------------------------------------------------------- response, audit
Row(u, action, status) == [user |-> u, action |-> action, status |-> status]
\* logs.models.Log: the fields of the model
LogFields == {"id", "user", "action", "details", "ip_address", "status", "timestamp"}
\* the keyword arguments audit_log passes to Log.objects.create
LogCreateKwargs == {"user", "action", "status", "ip_address", "user_agent"}
\* audit_log: the Log rows a sequence of calls writes.  Log.objects.create
\* raises TypeError for a keyword that is no field of the model, and audit_log
\* swallows every exception
audit_log(calls) ==
    IF LogCreateKwargs \subseteq LogFields THEN calls ELSE <<>>
\* the Log rows written by the request handled by the last step
Log == audit_log(audit)

\* mutant of audit_log_raises: audit_log without its except clause
audit_log_raises_unguarded(calls) ==
    calls # <<>> /\ ~(LogCreateKwargs \subseteq LogFields)

\* audit_log, lines 21 and 39-41: whether a fault of the calls reaches the
\* caller; the body is one try block and except Exception discards the fault
audit_log_raises(calls) ==
    FALSE

\* Log.action is a CharField(max_length=255); audit_log stores msg[:255]
ActionMaxLength == 255
\* the characters " (" and ")" that wrap the detail
SuffixOverhead == 3
Min(a, b) == IF a <= b THEN a ELSE b
Max(a, b) == IF a >= b THEN a ELSE b

\* audit_log, lines 26-34: the action text handed to Log.objects.create for an
\* action of action_len characters and an extra of extra_len characters (0
\* when no extra is given), as the lengths of its parts: the characters kept of
\* the action, those kept of the " (detail)" suffix, and the suffix as built
stored_action(action_len, extra_len) ==
    LET leftover == ActionMaxLength - action_len - SuffixOverhead
        detail == Min(extra_len, Max(0, leftover))
        suffix == IF extra_len > 0 THEN SuffixOverhead + detail ELSE 0
        length == Min(action_len + suffix, ActionMaxLength)
        action == Min(action_len, ActionMaxLength)
    IN [length |-> length,
        action |-> action,
        suffix |-> length - action,
        built_suffix |-> suffix,
        detail |-> IF extra_len > 0 THEN detail ELSE 0]

\* request.GET.get("next", ""): no destination
NoNext == ""
RespErrs(view, outcome, uid, errs) ==
    [view |-> view, outcome |-> outcome, uid |-> uid, errs |-> errs, next |-> NoNext]
\* a response that carries a ?next= destination
RespNext(view, outcome, uid, nxt) ==
    [RespErrs(view, outcome, uid, {}) EXCEPT !.next = nxt]
Resp(view, outcome, uid) == RespErrs(view, outcome, uid, {})
NoResp == Resp("none", "none", None)

\* a handler between requests
Idle == [at |-> "idle", target |-> None]

\* -------------------------------------------------------------------- Init
AnonymousSession ==
    [user |-> None, pwreset_uid |-> None, pwreset_ans_ok |-> FALSE, reauth_at |-> None]

\* An account of the deployment: an administrator with a security question
InitialRow(u) ==
    [role |-> "admin", is_staff |-> TRUE, is_superuser |-> TRUE,
     password |-> make_password(1),
     failed_logins |-> 0, locked_until |-> None,
     password_changed_at |-> None,
     security_question |-> ListedQuestion,
     security_answer_hash |-> make_password([text |-> 1, upper |-> FALSE, padded |-> FALSE])]

InitWith(n, sess) ==
    /\ User = [u \in 1..n |-> InitialRow(u)]
    /\ PasswordHistory = <<>>
    /\ cache = [u \in Usernames |-> None]
    /\ session = sess
    /\ now = 0
    /\ resp = NoResp
    /\ audit = <<>>
    /\ verified_for = None
    /\ pw_log = [u \in Usernames |-> IF u <= n THEN <<1>> ELSE <<>>]
    /\ lock_origin = [u \in Usernames |-> None]
    /\ streak = [u \in Usernames |-> 0]
    /\ hpc = [h \in Handlers |-> Idle]
    /\ hloc = [h \in Handlers |-> None]
    /\ serial = User
    /\ Order = <<>>
    /\ MenuItem = [pk \in 1..NumInitialMenuItems |-> [name |-> 1, is_available |-> TRUE]]
    /\ seq = [Order |-> 0, MenuItem |-> NumInitialMenuItems]

Init == InitWith(NumInitialUsers, AnonymousSession)

\* ------------------------------------------------------------------- clock
Tick(d, max) ==
    /\ now + d <= max * d
    /\ now' = now + d
    /\ resp' = NoResp
    /\ audit' = <<>>
    /\ UNCHANGED <<User, PasswordHistory, cache, session, verified_for, pw_log,
                   lock_origin, streak, hpc, hloc, Order, MenuItem, seq, serial>>

\* --------------------------------------------------------- lockout tracker
\* User.is_locked_now
is_locked_now(row) == row.locked_until # None /\ now < row.locked_until

\* LockoutBackend.user_can_authenticate (every account is_active)
user_can_authenticate(row) == ~is_locked_now(row)

\* django.contrib.auth.authenticate through LockoutBackend, which inherits
\* ModelBackend.authenticate: the password is checked first, then
\* user_can_authenticate; None when either fails
authenticate(username, password) ==
    IF username \in DOMAIN User
       /\ check_password(password, User[username].password)
       /\ user_can_authenticate(User[username])
    THEN username ELSE None

\* mutant of failed_row: the threshold compared with > instead of >=
failed_row_off_by_one(row) ==
    IF row.failed_logins + 1 > LOCKOUT_MAX_FAILURES
    THEN [row EXCEPT !.locked_until = now + LOCKOUT_COOLDOWN_MINUTES,
                     !.failed_logins = 0]
    ELSE [row EXCEPT !.failed_logins = row.failed_logins + 1]

\* mutant of failed_row: the lock is applied without the reset of line 48
failed_row_no_reset(row) ==
    IF row.failed_logins + 1 >= LOCKOUT_MAX_FAILURES
    THEN [row EXCEPT !.locked_until = now + LOCKOUT_COOLDOWN_MINUTES,
                     !.failed_logins = row.failed_logins + 1]
    ELSE [row EXCEPT !.failed_logins = row.failed_logins + 1]

\* on_login_failed, lines 42-48: the row after the failure transition
failed_row(row) ==
    IF row.failed_logins + 1 >= LOCKOUT_MAX_FAILURES
    THEN [row EXCEPT !.locked_until = now + LOCKOUT_COOLDOWN_MINUTES,
                     !.failed_logins = 0]
    ELSE [row EXCEPT !.failed_logins = row.failed_logins + 1]

\* on_login_failed: receiver of user_login_failed, which authenticate sends
\* whenever it returns None
on_login_failed(users, username) ==
    IF username \in DOMAIN users
    THEN [users EXCEPT ![username] = failed_row(users[username])]
    ELSE users

\* mutant of on_logged_in: the lock is left in place
on_logged_in_keeps_lock(row) ==
    [row EXCEPT !.failed_logins = 0]

\* on_logged_in, lines 74-83: the row after the success transition
on_logged_in(row) ==
    [row EXCEPT !.failed_logins = 0, !.locked_until = None]

\* on_logged_in, lines 75-82: the update_fields it saves
changed_fields(row) ==
    (IF row.failed_logins # 0 THEN {"failed_logins"} ELSE {})
    \cup (IF row.locked_until # None THEN {"locked_until"} ELSE {})

\* mutant of invalid_login_outcome: a known account gets a message of its own
invalid_login_outcome_known(users, user_for_msg) ==
    IF user_for_msg = None THEN "invalid"
    ELSE IF is_locked_now(users[user_for_msg]) THEN "locked" ELSE "wrong_password"

\* login_view, lines 216-225: the message of a failed login, chosen from the
\* row read at line 159, before authentication ran
invalid_login_outcome(users, user_for_msg) ==
    IF user_for_msg # None /\ is_locked_now(users[user_for_msg])
    THEN "locked" ELSE "invalid"

\* login_view, POST with a non-empty username and password
login_view(username, password) ==
    IF session.user # None
    THEN /\ resp' = Resp("login", "redirect_dashboard", username)
         /\ audit' = <<>>
         /\ UNCHANGED <<User, PasswordHistory, cache, session, now, verified_for,
                        pw_log, lock_origin, streak, hpc, hloc, Order, MenuItem, seq, serial>>
    ELSE LET user_for_msg == IF username \in DOMAIN User THEN username ELSE None
             user == authenticate(username, password)
         IN IF user # None
            THEN IF is_locked_now(User[user])
                 THEN /\ resp' = Resp("login", "locked", username)
                      /\ audit' = <<Row(user, "Login attempt during lockout", "fail")>>
                      /\ UNCHANGED <<User, PasswordHistory, cache, session, now,
                                     verified_for, pw_log, lock_origin, streak, hpc, hloc, Order, MenuItem, seq, serial>>
                 ELSE /\ User' = [User EXCEPT ![user] = on_logged_in(User[user])]
                      /\ session' = [session EXCEPT !.user = user]
                      /\ resp' = RespErrs("login", "success", username,
                                           changed_fields(User[user]))
                      /\ audit' = <<Row(user, "Login successful", "success"),
                                    Row(user, "User logged in", "success")>>
                      /\ streak' = [streak EXCEPT ![user] = 0]
                      /\ UNCHANGED <<PasswordHistory, cache, now, verified_for,
                                     pw_log, lock_origin, hpc, hloc, Order, MenuItem, seq, serial>>
            ELSE /\ User' = on_login_failed(User, username)
                 /\ cache' = IF username \in DOMAIN User
                             THEN [cache EXCEPT ![username] = now] ELSE cache
                 /\ resp' = Resp("login", invalid_login_outcome(User, user_for_msg),
                                 username)
                 /\ audit' = <<Row(user_for_msg, "Login attempt", "fail"),
                               Row(user_for_msg, "Login attempt", "fail")>>
                 /\ lock_origin' =
                      IF username \in DOMAIN User
                         /\ ~is_locked_now(User[username])
                         /\ User'[username].locked_until # User[username].locked_until
                      THEN [lock_origin EXCEPT ![username] = User'[username].locked_until]
                      ELSE lock_origin
                 /\ streak' =
                      IF username \notin DOMAIN User THEN streak
                      ELSE IF ~is_locked_now(User[username])
                              /\ (User[username].failed_logins = 0
                                  \/ streak[username] \in 1..(LOCKOUT_MAX_FAILURES - 1))
                      THEN [streak EXCEPT ![username] =
                               IF User[username].failed_logins = 0 THEN 1 ELSE @ + 1]
                      ELSE [streak EXCEPT ![username] = 0]
                 /\ UNCHANGED <<PasswordHistory, session, now, verified_for,
                                pw_log, hpc, hloc, Order, MenuItem, seq, serial>>

\* logout_view (login_required): logout() flushes the session
logout_view ==
    /\ session.user # None
    /\ session' = AnonymousSession
    /\ resp' = Resp("logout", "redirect_login", session.user)
    /\ audit' = <<Row(session.user, "User logged out", "success"),
                  Row(session.user, "Logout", "success")>>
    /\ verified_for' = None
    /\ UNCHANGED <<User, PasswordHistory, cache, now, pw_log,
                   lock_origin, streak, hpc, hloc, Order, MenuItem, seq, serial>>

\* the reads and writes of the account made while a login POST is handled:
\* the lookup of login_view (lines 158-161), the lookup of the backend
\* (ModelBackend.authenticate), the lookup and the save of on_login_failed
\* (signals.py lines 34 and 50), the save of on_logged_in (line 83)
StorageFaults == {"view_lookup", "backend_lookup", "signal_lookup", "signal_save",
                  "reset_save"}

\* the statement of fault is executed by a login POST with these credentials
fault_reached(fault, username, password) ==
    CASE fault \in {"view_lookup", "backend_lookup"} -> TRUE
      [] fault = "signal_lookup" -> authenticate(username, password) = None
      [] fault = "signal_save" ->
            authenticate(username, password) = None /\ username \in DOMAIN User
      [] fault = "reset_save" ->
            /\ authenticate(username, password) # None
            /\ changed_fields(User[username]) # {}

\* an exception that leaves login_view: Django answers with status 500, and
\* the session middleware does not save the session of such a response
login_server_error(username) ==
    /\ resp' = Resp("login", "server_error", username)
    /\ audit' = <<>>
    /\ UNCHANGED <<User, PasswordHistory, cache, session, now, verified_for,
                   pw_log, lock_origin, streak, hpc, hloc, Order, MenuItem, seq, serial>>

\* login_view, POST by an anonymous client during which the storage raises at
\* the statement named by fault.  login_view and on_login_failed wrap their
\* lookups in try / except Exception and go on with None; the backend's lookup
\* and the two saves are not wrapped.
login_view_storage_fault(username, password, fault) ==
    /\ session.user = None
    /\ fault_reached(fault, username, password)
    /\ IF fault \in {"backend_lookup", "signal_save", "reset_save"}
       THEN login_server_error(username)
       ELSE LET user_for_msg == IF fault # "view_lookup" /\ username \in DOMAIN User
                                THEN username ELSE None
                signal_user == IF fault # "signal_lookup" /\ username \in DOMAIN User
                               THEN username ELSE None
                user == authenticate(username, password)
            IN IF user # None
               THEN /\ User' = [User EXCEPT ![user] = on_logged_in(User[user])]
                    /\ session' = [session EXCEPT !.user = user]
                    /\ resp' = RespErrs("login", "success", username,
                                         changed_fields(User[user]))
                    /\ audit' = <<Row(user, "Login successful", "success"),
                                  Row(user, "User logged in", "success")>>
                    /\ streak' = [streak EXCEPT ![user] = 0]
                    /\ UNCHANGED <<PasswordHistory, cache, now, verified_for,
                                   pw_log, lock_origin, hpc, hloc, Order, MenuItem, seq, serial>>
               ELSE /\ User' = IF signal_user # None
                               THEN on_login_failed(User, username) ELSE User
                    /\ cache' = IF signal_user # None
                                THEN [cache EXCEPT ![username] = now] ELSE cache
                    /\ resp' = Resp("login", invalid_login_outcome(User, user_for_msg),
                                    username)
                    /\ audit' = <<Row(signal_user, "Login attempt", "fail"),
                                  Row(user_for_msg, "Login attempt", "fail")>>
                    /\ lock_origin' =
                         IF signal_user # None
                            /\ ~is_locked_now(User[username])
                            /\ User'[username].locked_until # User[username].locked_until
                         THEN [lock_origin EXCEPT ![username] = User'[username].locked_until]
                         ELSE lock_origin
                    /\ streak' =
                         IF signal_user = None THEN streak
                         ELSE IF ~is_locked_now(User[username])
                                 /\ (User[username].failed_logins = 0
                                     \/ streak[username] \in 1..(LOCKOUT_MAX_FAILURES - 1))
                         THEN [streak EXCEPT ![username] =
                                  IF User[username].failed_logins = 0 THEN 1 ELSE @ + 1]
                         ELSE [streak EXCEPT ![username] = 0]
                    /\ UNCHANGED <<PasswordHistory, session, now, verified_for,
                                   pw_log, hpc, hloc, Order, MenuItem, seq, serial>>

\* Logins during which the storage may fail
NextLoginFault ==
    \/ Tick(5, MaxTicks)
    \/ \E n \in Usernames, p \in Passwords : login_view(n, p)
    \/ \E n \in Usernames, p \in Passwords, f \in StorageFaults :
          login_view_storage_fault(n, p, f)
    \/ logout_view

SpecLoginFault == Init /\ [][NextLoginFault]_vars

\* ------------------------------------------------------ login specification
NextLogin ==
    \/ Tick(5, MaxTicks)
    \/ \E n \in Usernames, p \in Passwords : login_view(n, p)
    \/ logout_view

SpecLogin == Init /\ [][NextLogin]_vars

\* ------------------------------------------------------- password lifecycle
\* PasswordHistory rows of one account, oldest first (the table is kept in
\* insertion order, which is the order of changed_at)
UserHistory(u) == SelectSeq(PasswordHistory, LAMBDA r : r.user = u)

\* mutant of password_recently_changed: no minimum age
password_recently_changed_never(row) ==
    FALSE

\* password_recently_changed(user, min_days)
password_recently_changed(row) ==
    /\ row.password_changed_at # None
    /\ now - row.password_changed_at < MIN_PASSWORD_AGE_DAYS * MinutesPerDay

\* the hashes is_reused_password reads: order_by("-changed_at")[:history_count]
recent_hashes(u, history_count) ==
    LET h == UserHistory(u)
        n == Len(h)
    IN { h[i].password_hash : i \in { j \in 1..n : j > n - history_count } }

\* mutant of is_reused_password: the history is not consulted
is_reused_password_never(u, raw_password) ==
    FALSE

\* is_reused_password(user, raw_password, history_count)
is_reused_password(u, raw_password) ==
    \E ph \in recent_hashes(u, PASSWORD_HISTORY_COUNT) : check_password(raw_password, ph)

\* remember_password(user), on the pair of tables
remember_password(db, u) ==
    [User |-> [db.User EXCEPT ![u].password_changed_at = now],
     PasswordHistory |-> Append(db.PasswordHistory,
                                [user |-> u,
                                 password_hash |-> db.User[u].password,
                                 changed_at |-> now])]

\* user.set_password(raw); user.save()
set_password(db, u, raw) ==
    [db EXCEPT !.User[u].password = make_password(raw)]

\* lines 513-516 and 637-640: remember, set, remember
commit_password(db, u, raw) ==
    remember_password(set_password(remember_password(db, u), u, raw), u)

\* the checks of new1 / new2 shared by change_password_view and
\* reset_set_password_view (an if / elif chain: at most one of them reports)
new_password_errs(u, new1, new2) ==
    IF new1 = EmptyPw \/ new2 = EmptyPw THEN {"enter_and_confirm"}
    ELSE IF new1 # new2 THEN {"mismatch"}
    ELSE IF PwLen(new1) < MinNewPasswordLen THEN {"too_short"}
    ELSE IF is_reused_password(u, new1) THEN {"reused"}
    ELSE {}

\* mutant of reauth_fresh: any timestamp will do
reauth_fresh_any_age ==
    session.reauth_at # None

\* require_recent_reauth, line 136: the redirect to the re-auth prompt, which
\* carries the path that was requested
redirect_reauth(view, uid) == RespNext(view, "redirect_reauth", uid, view)

\* require_recent_reauth: the guarded view runs
reauth_fresh ==
    /\ session.reauth_at # None
    /\ ~(now - session.reauth_at > REAUTH_TIMEOUT_MINUTES)

\* register_view, POST with a valid and unused email
register_view(username, password1, password2) ==
    IF session.user # None
    THEN /\ resp' = Resp("register", "redirect_dashboard", username)
         /\ audit' = <<>>
         /\ UNCHANGED <<User, PasswordHistory, cache, session, now, verified_for,
                        pw_log, lock_origin, streak, hpc, hloc, Order, MenuItem, seq, serial>>
    ELSE LET errs ==
                 (IF username \in DOMAIN User THEN {"username_taken"} ELSE {})
                 \cup (IF password1 = EmptyPw THEN {"password_required"}
                       ELSE IF PwLen(password1) < 8 THEN {"password_min_8"} ELSE {})
                 \cup (IF password2 = EmptyPw THEN {"confirm_required"}
                       ELSE IF password1 # EmptyPw /\ password1 # password2
                            THEN {"mismatch"} ELSE {})
             created == [role |-> "customer", is_staff |-> FALSE, is_superuser |-> FALSE,
                         password |-> make_password(password1),
                         failed_logins |-> 0, locked_until |-> None,
                         password_changed_at |-> None,
                         security_question |-> BlankQuestion,
                         security_answer_hash |-> BlankHash]
             db0 == [User |-> [u \in DOMAIN User \cup {username} |->
                                  IF u = username THEN created ELSE User[u]],
                     PasswordHistory |-> PasswordHistory]
             db1 == remember_password(db0, username)
         IN IF errs # {}
            THEN /\ resp' = RespErrs("register", "invalid", username, errs)
                 /\ audit' = <<Row(None, "Registration validation failed", "fail")>>
                 /\ UNCHANGED <<User, PasswordHistory, cache, session, now, verified_for,
                                pw_log, lock_origin, streak, hpc, hloc, Order, MenuItem, seq, serial>>
            ELSE /\ Len(PasswordHistory) + 1 <= MaxHistoryRows
                 /\ PasswordHistory' = db1.PasswordHistory
                 /\ pw_log' = [pw_log EXCEPT ![username] = <<password1>>]
                 /\ IF audit_log_raises(<<Row(username, "User registered", "success")>>)
                    THEN \* lines 293-296 are not reached
                         /\ User' = db1.User
                         /\ session' = session
                         /\ resp' = Resp("register", "server_error", username)
                         /\ audit' = <<Row(username, "User registered", "success")>>
                    ELSE /\ User' = [db1.User EXCEPT ![username] = on_logged_in(@)]
                         /\ session' = [session EXCEPT !.user = username]
                         /\ resp' = Resp("register", "created", username)
                         /\ audit' = <<Row(username, "User registered", "success"),
                                       Row(username, "Login successful", "success")>>
                 /\ UNCHANGED <<cache, now, verified_for, lock_origin, streak, hpc, hloc, Order, MenuItem, seq, serial>>

\* mutant of reauth_ok: every password passes
reauth_ok_any(pwd) ==
    TRUE

\* reauth_view, line 385: request.user.check_password(pwd), on the row loaded
\* for this request
reauth_ok(pwd) ==
    check_password(pwd, User[session.user].password)

\* mutant of reauth_session: the timestamp is written whatever the password
reauth_session_always(sess, ok) ==
    [sess EXCEPT !.reauth_at = now]

\* reauth_view, lines 385-386: the session after the POST
reauth_session(sess, ok) ==
    IF ok THEN [sess EXCEPT !.reauth_at = now] ELSE sess

\* reauth_view, POST (login_required); nxt is the next parameter of the request
reauth_view(pwd, nxt) ==
    /\ session.user # None
    /\ session' = reauth_session(session, reauth_ok(pwd))
    /\ IF reauth_ok(pwd)
       THEN /\ resp' = RespNext("reauth", "redirect_next", session.user,
                                IF nxt # NoNext THEN nxt ELSE "dashboard")
            /\ audit' = <<Row(session.user, "Re-authentication", "success")>>
       ELSE /\ resp' = RespNext("reauth", "incorrect", session.user, nxt)
            /\ audit' = <<Row(session.user, "Re-authentication", "fail")>>
    /\ UNCHANGED <<User, PasswordHistory, cache, now, verified_for, pw_log,
                   lock_origin, streak, hpc, hloc, Order, MenuItem, seq, serial>>

\* setup_security_question_view, POST (login_required) with an answer that
\* passes the length and triviality checks unless it is empty
setup_security_question_view(q, a) ==
    /\ session.user # None
    /\ LET user == session.user
           errs == (IF q = BlankQuestion THEN {"select_question"}
                    ELSE IF q # ListedQuestion THEN {"invalid_question"} ELSE {})
                   \cup (IF ~NonEmpty(strip(a)) THEN {"answer_required"} ELSE {})
       IN IF User[user].security_question # BlankQuestion
             /\ User[user].security_answer_hash # BlankHash
          THEN /\ resp' = Resp("setup_security_question", "redirect_dashboard", user)
               /\ audit' = <<>>
               /\ User' = User
          ELSE IF errs # {}
          THEN /\ resp' = RespErrs("setup_security_question", "invalid", user, errs)
               /\ audit' = <<Row(user, "Setup security question validation failed", "fail")>>
               /\ User' = User
          ELSE /\ User' = [User EXCEPT ![user].security_question = q,
                                       ![user].security_answer_hash = hash_answer(strip(a))]
               /\ resp' = Resp("setup_security_question", "saved", user)
               /\ audit' = <<Row(user, "Security question set", "success")>>
    /\ UNCHANGED <<PasswordHistory, cache, session, now, verified_for, pw_log,
                   lock_origin, streak, hpc, hloc, Order, MenuItem, seq, serial>>

\* change_password_view, POST (login_required, require_recent_reauth)
change_password_view(current, new1, new2) ==
    /\ session.user # None
    /\ LET user == session.user
           errs == (IF ~check_password(current, User[user].password)
                    THEN {"current_incorrect"} ELSE {})
                   \cup (IF password_recently_changed(User[user])
                         THEN {"changed_recently"} ELSE {})
                   \cup new_password_errs(user, new1, new2)
           db == commit_password([User |-> User, PasswordHistory |-> PasswordHistory],
                                 user, new1)
       IN IF ~reauth_fresh
          THEN /\ resp' = redirect_reauth("change_password", user)
               /\ audit' = <<>>
               /\ UNCHANGED <<User, PasswordHistory, pw_log, streak>>
          ELSE IF errs # {}
          THEN /\ resp' = RespErrs("change_password", "invalid", user, errs)
               /\ audit' = <<Row(user, "Change password validation failed", "fail")>>
               /\ UNCHANGED <<User, PasswordHistory, pw_log, streak>>
          ELSE /\ Len(PasswordHistory) + 2 <= MaxHistoryRows
               /\ User' = [db.User EXCEPT ![user] = on_logged_in(@)]
               /\ PasswordHistory' = db.PasswordHistory
               /\ pw_log' = [pw_log EXCEPT ![user] = Append(@, new1)]
               /\ streak' = [streak EXCEPT ![user] = 0]
               /\ resp' = Resp("change_password", "changed", user)
               /\ audit' = <<Row(user, "Login successful", "success"),
                             Row(user, "Password changed", "success")>>
    /\ UNCHANGED <<cache, session, now, verified_for, lock_origin, hpc, hloc, Order, MenuItem, seq, serial>>

\* ------------------------------------------------ reset by security question
\* mutant of reset_target: any existing account becomes the target
reset_target_any_account(users, user) ==
    user

\* reset_start_view, lines 546-550: the target stored in the session
reset_target(users, user) ==
    IF user # None /\ users[user].security_question # BlankQuestion
    THEN user ELSE None

\* reset_start_view, POST (Step 1)
reset_start_view(username) ==
    LET user == IF username \in DOMAIN User THEN username ELSE None
    IN /\ session' = [session EXCEPT !.pwreset_uid = reset_target(User, user)]
       /\ resp' = Resp("reset_start", "redirect_reset_question", username)
       /\ audit' = <<Row(user, "Password reset start", "success")>>
       /\ UNCHANGED <<User, PasswordHistory, cache, now, verified_for, pw_log,
                      lock_origin, streak, hpc, hloc, Order, MenuItem, seq, serial>>

\* reset_question_view (Step 2); post is FALSE for GET
reset_question_view(post, answer) ==
    LET uid == session.pwreset_uid
        user == IF uid # None /\ uid \in DOMAIN User THEN uid ELSE None
        ans == strip(answer)
    IN /\ IF user = None
          THEN /\ resp' = Resp("reset_question", "redirect_reset_start", uid)
               /\ audit' = <<Row(None, "Password reset question without session", "fail")>>
               /\ UNCHANGED <<session, verified_for>>
          ELSE IF User[user].security_question = BlankQuestion
          THEN /\ resp' = Resp("reset_question", "redirect_reset_start", uid)
               /\ audit' = <<Row(user, "Password reset question missing", "fail")>>
               /\ UNCHANGED <<session, verified_for>>
          ELSE IF ~post
          THEN /\ resp' = Resp("reset_question", "render", uid)
               /\ audit' = <<>>
               /\ UNCHANGED <<session, verified_for>>
          ELSE IF ~NonEmpty(ans) \/ ~check_answer(ans, User[user].security_answer_hash)
          THEN /\ resp' = Resp("reset_question", "incorrect", uid)
               /\ audit' = <<Row(user, "Password reset answer failed", "fail")>>
               /\ UNCHANGED <<session, verified_for>>
          ELSE /\ session' = [session EXCEPT !.pwreset_ans_ok = TRUE]
               /\ verified_for' = user
               /\ resp' = Resp("reset_question", "redirect_reset_set_password", uid)
               /\ audit' = <<Row(user, "Password reset answer success", "success")>>
       /\ UNCHANGED <<User, PasswordHistory, cache, now, pw_log, lock_origin,
                      streak, hpc, hloc, Order, MenuItem, seq, serial>>

\* mutant of reset_prerequisites: the 'verified' flag is not looked at
reset_prerequisites_uid_only ==
    session.pwreset_uid # None

\* lines 601-607: Step 3 may proceed
reset_prerequisites ==
    ~(session.pwreset_uid = None \/ ~session.pwreset_ans_ok)

\* mutant of clear_reset_state: the 'verified' flag is left in place
clear_reset_state_keeps_flag(sess) ==
    [sess EXCEPT !.pwreset_uid = None]

\* lines 643-644: both reset markers are popped from the session
clear_reset_state(sess) ==
    [sess EXCEPT !.pwreset_uid = None, !.pwreset_ans_ok = FALSE]

\* reset_set_password_view (Step 3); post is FALSE for GET
reset_set_password_view(post, new1, new2) ==
    LET uid == session.pwreset_uid
        errs == (IF password_recently_changed(User[uid])
                 THEN {"changed_recently"} ELSE {})
                \cup new_password_errs(uid, new1, new2)
        db == commit_password([User |-> User, PasswordHistory |-> PasswordHistory],
                              uid, new1)
    IN /\ IF ~reset_prerequisites
          THEN /\ resp' = Resp("reset_set_password", "redirect_reset_start", uid)
               /\ audit' = <<Row(None, "Password reset set without prerequisites", "fail")>>
               /\ UNCHANGED <<User, PasswordHistory, session, verified_for, pw_log>>
          ELSE IF ~post
          THEN /\ resp' = Resp("reset_set_password", "render", uid)
               /\ audit' = <<>>
               /\ UNCHANGED <<User, PasswordHistory, session, verified_for, pw_log>>
          ELSE IF errs # {}
          THEN /\ resp' = RespErrs("reset_set_password", "invalid", uid, errs)
               /\ audit' = <<Row(uid, "Password reset set validation failed", "fail")>>
               /\ UNCHANGED <<User, PasswordHistory, session, verified_for, pw_log>>
          ELSE /\ Len(PasswordHistory) + 2 <= MaxHistoryRows
               /\ User' = db.User
               /\ PasswordHistory' = db.PasswordHistory
               /\ session' = clear_reset_state(session)
               /\ verified_for' = verified_for
               /\ pw_log' = [pw_log EXCEPT ![uid] = Append(@, new1)]
               /\ resp' = Resp("reset_set_password", "reset", uid)
               /\ audit' = <<Row(uid, "Password reset completed", "success")>>
       /\ UNCHANGED <<cache, now, lock_origin, streak, hpc, hloc, Order, MenuItem, seq, serial>>

\* ---------------------------------------------------------- role management
RoleInputs == Roles \cup {"owner"}

\* mutant of removes_last_admin: the target is not excluded from the search
\* for another admin
removes_last_admin_no_exclude(users, target, new_role) ==
    /\ users[target].role = "admin"
    /\ new_role # "admin"
    /\ ~\E o \in DOMAIN users : users[o].role = "admin"

\* lines 350-355: the request would remove the last admin
removes_last_admin(users, target, new_role) ==
    /\ users[target].role = "admin"
    /\ new_role # "admin"
    /\ ~\E o \in DOMAIN users : o # target /\ users[o].role = "admin"

\* mutant of valid_role: any posted value is taken
valid_role_any(new_role) ==
    TRUE

\* line 344: the posted role is one of the three values
valid_role(new_role) ==
    new_role \in {"customer", "manager", "admin"}

\* mutant of with_role: the Django flags are not aligned with the role
with_role_keeps_flags(row, new_role) ==
    [row EXCEPT !.role = new_role]

\* lines 357-361: the row saved with update_fields role, is_staff, is_superuser
with_role(row, new_role) ==
    [row EXCEPT !.role = new_role,
                !.is_staff = new_role \in {"manager", "admin"},
                !.is_superuser = new_role = "admin"]

\* manage_users_view, POST (login_required, require_recent_reauth)
manage_users_view(user_id, new_role) ==
    /\ session.user # None
    /\ LET actor == session.user
       IN IF ~reauth_fresh
          THEN /\ resp' = redirect_reauth("manage_users", user_id)
               /\ audit' = <<>>
               /\ User' = User
          ELSE IF User[actor].role # "admin"
          THEN /\ resp' = Resp("manage_users", "forbidden", user_id)
               /\ audit' = <<Row(actor, "Manage users (admin-only)", "fail")>>
               /\ User' = User
          ELSE IF ~valid_role(new_role)
          THEN /\ resp' = Resp("manage_users", "invalid_role", user_id)
               /\ audit' = <<>>
               /\ User' = User
          ELSE IF user_id \notin DOMAIN User
          THEN /\ resp' = Resp("manage_users", "not_found", user_id)
               /\ audit' = <<>>
               /\ User' = User
          ELSE IF removes_last_admin(User, user_id, new_role)
          THEN /\ resp' = Resp("manage_users", "last_admin", user_id)
               /\ audit' = <<>>
               /\ User' = User
          ELSE /\ User' = [User EXCEPT ![user_id] = with_role(@, new_role)]
               /\ resp' = Resp("manage_users", "updated", user_id)
               /\ audit' = <<Row(actor, "Changed role", "success")>>
    /\ UNCHANGED <<PasswordHistory, cache, session, now, verified_for, pw_log,
                   lock_origin, streak, hpc, hloc, Order, MenuItem, seq, serial>>

\* ------------------------------------------------------------------ orders
\* everything but the Order and MenuItem tables and their sequences
accountVars == <<User, PasswordHistory, cache, session, now, verified_for, pw_log,
                 lock_origin, streak, hpc, hloc, serial>>

\* Order.STATUS_CHOICES
Statuses == {"pending", "preparing", "completed", "cancelled"}
OrderIds == 1..MaxOrderId
MenuIds == 1..MaxMenuId
\* the contents an order-item formset or a menu form can post
ItemSets == 1..NumItemSets
MenuNames == 1..NumMenuNames

\* _is_manager(user), the same in orders/views.py and menu/views.py
is_manager(row) == row.role \in {"manager", "admin"} \/ row.is_superuser

\* _allowed_transitions(status)
allowed_transitions(status) ==
    IF status = "pending" THEN {"preparing", "cancelled"}
    ELSE IF status = "preparing" THEN {"completed", "cancelled"}
    ELSE {}

\* a table without the row pk
without(table, pk) == [k \in DOMAIN table \ {pk} |-> table[k]]
\* a table with the row pk inserted
with(table, pk, row) == [k \in DOMAIN table \cup {pk} |-> IF k = pk THEN row ELSE table[k]]

\* mutant of saved_status: the posted status is saved for every user
saved_status_as_posted(row, status) ==
    status

\* lines 69-70 and 116-117: the status saved for a form posted by the user of
\* row; OrderForm has no status field and the view sets pending for non-staff
saved_status(row, status) ==
    IF is_manager(row) THEN status ELSE "pending"

\* order_create_view (login_required), POST with a valid form and formset;
\* status is the field of StaffOrderForm, which OrderForm does not have
order_create_view(status, items) ==
    /\ session.user # None
    /\ seq.Order < MaxOrderId
    /\ LET user == session.user
           pk == seq.Order + 1
       IN /\ Order' = with(Order, pk,
                           [customer |-> user,
                            status |-> saved_status(User[user], status),
                            items |-> items])
          /\ seq' = [seq EXCEPT !.Order = pk]
          /\ resp' = Resp("order_create", "created", pk)
          /\ audit' = <<Row(user, "Created order", "success")>>
    /\ UNCHANGED <<accountVars, MenuItem>>

\* order_update_view (login_required) with a valid form and formset; post is
\* FALSE for GET
order_update_view(pk, status, items, post) ==
    /\ session.user # None
    /\ LET user == session.user
       IN IF pk \notin DOMAIN Order
          THEN /\ resp' = Resp("order_update", "not_found", pk)
               /\ audit' = <<>>
               /\ Order' = Order
          ELSE IF ~(is_manager(User[user]) \/ Order[pk].customer = user)
          THEN /\ resp' = Resp("order_update", "not_found", pk)
               /\ audit' = <<Row(user, "Unauthorized order update attempt", "fail")>>
               /\ Order' = Order
          ELSE IF ~is_manager(User[user]) /\ Order[pk].status # "pending"
          THEN /\ resp' = Resp("order_update", "not_pending", pk)
               /\ audit' = <<Row(user, "Attempted edit of non-pending order", "fail")>>
               /\ Order' = Order
          ELSE IF ~post
          THEN /\ resp' = Resp("order_update", "render", pk)
               /\ audit' = <<>>
               /\ Order' = Order
          ELSE /\ Order' = [Order EXCEPT
                                ![pk].status = saved_status(User[user], status),
                                ![pk].items = items]
               /\ resp' = Resp("order_update", "updated", pk)
               /\ audit' = <<Row(user, "Updated order", "success")>>
    /\ UNCHANGED <<accountVars, MenuItem, seq>>

\* order_status_transition (login_required, require_recent_reauth, POST)
order_status_transition(pk, to) ==
    /\ session.user # None
    /\ LET user == session.user
       IN IF ~reauth_fresh
          THEN /\ resp' = redirect_reauth("order_status", pk)
               /\ audit' = <<>>
               /\ Order' = Order
          ELSE IF pk \notin DOMAIN Order
          THEN /\ resp' = Resp("order_status", "not_found", pk)
               /\ audit' = <<>>
               /\ Order' = Order
          ELSE IF ~is_manager(User[user])
          THEN /\ resp' = Resp("order_status", "only_managers", pk)
               /\ audit' = <<Row(user, "Unauthorized status change attempt on order", "fail")>>
               /\ Order' = Order
          ELSE IF to \notin allowed_transitions(Order[pk].status)
          THEN /\ resp' = Resp("order_status", "bad_request", pk)
               /\ audit' = <<Row(user, "Invalid status transition for order", "fail")>>
               /\ Order' = Order
          ELSE /\ Order' = [Order EXCEPT ![pk].status = to]
               /\ resp' = Resp("order_status", "changed", pk)
               /\ audit' = <<Row(user, "Changed order status", "success")>>
    /\ UNCHANGED <<accountVars, MenuItem, seq>>

\* order_delete_view (login_required, require_recent_reauth), any method
order_delete_view(pk) ==
    /\ session.user # None
    /\ LET user == session.user
           is_staff == is_manager(User[user])
           is_owner == Order[pk].customer = user
       IN IF ~reauth_fresh
          THEN /\ resp' = redirect_reauth("order_delete", pk)
               /\ audit' = <<>>
               /\ Order' = Order
          ELSE IF pk \notin DOMAIN Order
          THEN /\ resp' = Resp("order_delete", "not_found", pk)
               /\ audit' = <<>>
               /\ Order' = Order
          ELSE IF is_owner /\ ~is_staff /\ Order[pk].status # "pending"
          THEN /\ resp' = Resp("order_delete", "not_pending", pk)
               /\ audit' = <<Row(user, "Unauthorized delete attempt on order", "fail")>>
               /\ Order' = Order
          ELSE /\ Order' = without(Order, pk)
               /\ resp' = Resp("order_delete", "deleted", pk)
               /\ audit' = <<Row(user, "Deleted order", "success")>>
    /\ UNCHANGED <<accountVars, MenuItem, seq>>

\* -------------------------------------------------------------------- menu
\* _deny / _fail_secure_forbidden: HttpResponseForbidden with the fixed text
deny(view, target) == Resp(view, "forbidden", target)

\* menu_list_view (login_required)
menu_list_view ==
    /\ session.user # None
    /\ IF ~is_manager(User[session.user])
       THEN /\ resp' = deny("menu_list", None)
            /\ audit' = <<Row(session.user, "View menu list (manager-only)", "fail")>>
       ELSE /\ resp' = Resp("menu_list", "render", None)
            /\ audit' = <<Row(session.user, "Viewed menu list", "success")>>
    /\ UNCHANGED <<accountVars, Order, MenuItem, seq>>

\* menu_create_view (login_required), POST with a valid form
menu_create_view(name) ==
    /\ session.user # None
    /\ LET user == session.user
           pk == seq.MenuItem + 1
       IN IF ~is_manager(User[user])
          THEN /\ resp' = deny("menu_create", None)
               /\ audit' = <<Row(user, "Create menu item (manager-only)", "fail")>>
               /\ UNCHANGED <<MenuItem, seq>>
          ELSE /\ seq.MenuItem < MaxMenuId
               /\ MenuItem' = with(MenuItem, pk, [name |-> name, is_available |-> TRUE])
               /\ seq' = [seq EXCEPT !.MenuItem = pk]
               /\ resp' = Resp("menu_create", "created", pk)
               /\ audit' = <<Row(user, "Created menu item", "success")>>
    /\ UNCHANGED <<accountVars, Order>>

\* menu_edit_view (login_required), POST with a valid form
menu_edit_view(pk, name) ==
    /\ session.user # None
    /\ LET user == session.user
       IN IF ~is_manager(User[user])
          THEN /\ resp' = deny("menu_edit", pk)
               /\ audit' = <<Row(user, "Edit menu item (manager-only)", "fail")>>
               /\ MenuItem' = MenuItem
          ELSE IF pk \notin DOMAIN MenuItem
          THEN /\ resp' = Resp("menu_edit", "not_found", pk)
               /\ audit' = <<>>
               /\ MenuItem' = MenuItem
          ELSE /\ MenuItem' = [MenuItem EXCEPT ![pk].name = name]
               /\ resp' = Resp("menu_edit", "updated", pk)
               /\ audit' = <<Row(user, "Updated menu item", "success")>>
    /\ UNCHANGED <<accountVars, Order, seq>>

\* menu_delete_view (login_required, require_recent_reauth); post is FALSE
\* for GET.  No order item of the model refers to a menu item.
menu_delete_view(pk, post) ==
    /\ session.user # None
    /\ LET user == session.user
       IN IF ~reauth_fresh
          THEN /\ resp' = redirect_reauth("menu_delete", pk)
               /\ audit' = <<>>
               /\ MenuItem' = MenuItem
          ELSE IF ~is_manager(User[user])
          THEN /\ resp' = deny("menu_delete", pk)
               /\ audit' = <<Row(user, "Delete menu item (manager-only)", "fail")>>
               /\ MenuItem' = MenuItem
          ELSE IF pk \notin DOMAIN MenuItem
          THEN /\ resp' = Resp("menu_delete", "not_found", pk)
               /\ audit' = <<>>
               /\ MenuItem' = MenuItem
          ELSE IF ~post
          THEN /\ resp' = Resp("menu_delete", "render", pk)
               /\ audit' = <<Row(user, "Viewed delete confirm for menu item", "success")>>
               /\ MenuItem' = MenuItem
          ELSE /\ MenuItem' = without(MenuItem, pk)
               /\ resp' = Resp("menu_delete", "deleted", pk)
               /\ audit' = <<Row(user, "Deleted menu item", "success")>>
    /\ UNCHANGED <<accountVars, Order, seq>>

\* admin_logs_view (login_required)
admin_logs_view ==
    /\ session.user # None
    /\ IF User[session.user].role # "admin" /\ ~User[session.user].is_superuser
       THEN resp' = Resp("admin_logs", "not_authorized_redirect_dashboard", None)
       ELSE resp' = Resp("admin_logs", "render", None)
    /\ audit' = <<>>
    /\ UNCHANGED <<accountVars, Order, MenuItem, seq>>

\* ------------------------------------------------------- racing handlers
\* on_login_failed in a request of its own, up to the read of line 34: the
\* handler holds the row it read
FailRead(h, username) ==
    /\ hpc[h] = Idle
    /\ username \in DOMAIN User
    /\ hpc' = [hpc EXCEPT ![h] = [at |-> "fail_loaded", target |-> username]]
    /\ hloc' = [hloc EXCEPT ![h] = User[username]]
    /\ resp' = NoResp
    /\ audit' = <<>>
    /\ UNCHANGED <<User, PasswordHistory, cache, session, now, verified_for, pw_log,
                   lock_origin, streak, serial,
                   Order, MenuItem, seq>>

\* on_login_failed, lines 45-50: the transition on the row that was read,
\* saved with update_fields failed_logins, locked_until
FailSave(h) ==
    /\ hpc[h].at = "fail_loaded"
    /\ LET u == hpc[h].target
           r == failed_row(hloc[h])
       IN /\ User' = [User EXCEPT ![u].failed_logins = r.failed_logins,
                                  ![u].locked_until = r.locked_until]
          /\ serial' = [serial EXCEPT ![u] = failed_row(@)]
          /\ cache' = [cache EXCEPT ![u] = now]
          /\ resp' = Resp("login", "invalid", u)
          /\ audit' = <<Row(u, "Login attempt", "fail"), Row(u, "Login attempt", "fail")>>
    /\ hpc' = [hpc EXCEPT ![h] = Idle]
    /\ hloc' = [hloc EXCEPT ![h] = None]
    /\ UNCHANGED <<PasswordHistory, session, now, verified_for, pw_log, lock_origin, streak,
                   Order, MenuItem, seq>>

\* manage_users_view in a request of its own, up to the last-admin check of
\* line 352, for a request that passes every check
ManageRead(h, user_id, new_role) ==
    /\ hpc[h] = Idle
    /\ session.user # None
    /\ reauth_fresh
    /\ User[session.user].role = "admin"
    /\ new_role \in {"customer", "manager", "admin"}
    /\ user_id \in DOMAIN User
    /\ ~removes_last_admin(User, user_id, new_role)
    /\ hpc' = [hpc EXCEPT ![h] = [at |-> "manage_checked", target |-> user_id]]
    /\ hloc' = [hloc EXCEPT ![h] = with_role(User[user_id], new_role)]
    /\ resp' = NoResp
    /\ audit' = <<>>
    /\ UNCHANGED <<User, PasswordHistory, cache, session, now, verified_for, pw_log,
                   lock_origin, streak, serial,
                   Order, MenuItem, seq>>

\* manage_users_view, lines 357-365: the save
ManageSave(h) ==
    /\ hpc[h].at = "manage_checked"
    /\ LET u == hpc[h].target
           r == hloc[h]
       IN /\ User' = [User EXCEPT ![u].role = r.role,
                                  ![u].is_staff = r.is_staff,
                                  ![u].is_superuser = r.is_superuser]
          /\ serial' = [serial EXCEPT ![u].role = r.role,
                                      ![u].is_staff = r.is_staff,
                                      ![u].is_superuser = r.is_superuser]
          /\ resp' = Resp("manage_users", "updated", u)
          /\ audit' = <<Row(session.user, "Changed role", "success")>>
    /\ hpc' = [hpc EXCEPT ![h] = Idle]
    /\ hloc' = [hloc EXCEPT ![h] = None]
    /\ UNCHANGED <<PasswordHistory, cache, session, now, verified_for, pw_log,
                   lock_origin, streak,
                   Order, MenuItem, seq>>

\* ---------------------------------------------------------- specifications
\* the raw password an account holds, as its owner types it
current_password(u) == pw_log[u][Len(pw_log[u])]

\* the answer the owner of an initial account gave at setup
OwnAnswer == [text |-> 1, upper |-> FALSE, padded |-> FALSE]

\* a confirmation field: the same entry, nothing, or something else
Confirmations(p1) == {p1, EmptyPw, 1}

\* The reset flow, with registration and security-question setup; the clock
\* steps by one day
NextReset ==
    \/ Tick(MinutesPerDay, MaxDays)
    \/ \E n \in Usernames, p1 \in {1, EmptyPw, TinyPw} : \E p2 \in Confirmations(p1) :
           register_view(n, p1, p2)
    \/ \E q \in {BlankQuestion, ListedQuestion, UnlistedQuestion},
          a \in {x \in AnswerInputs : x.text <= 1 /\ ~x.upper} :
           setup_security_question_view(q, a)
    \/ logout_view
    \/ \E n \in Usernames : reset_start_view(n)
    \/ \E post \in BOOLEAN, a \in AnswerInputs : reset_question_view(post, a)
    \/ \E post \in BOOLEAN, p1 \in {1, 2, EmptyPw, ShortPw} : \E p2 \in Confirmations(p1) :
           reset_set_password_view(post, p1, p2)

SpecReset == Init /\ [][NextReset]_vars

\* The password lifecycle of an account whose owner logs in with the right
\* password; the clock steps by one day
NextPassword ==
    \/ Tick(MinutesPerDay, MaxDays)
    \/ \E n \in DOMAIN User : login_view(n, current_password(n))
    \/ \E p \in Passwords : reauth_view(p, resp.next)
    \/ \E c \in Passwords, p1 \in PasswordInputs : \E p2 \in Confirmations(p1) :
           change_password_view(c, p1, p2)
    \/ \E n \in DOMAIN User : reset_start_view(n)
    \/ reset_question_view(TRUE, OwnAnswer)
    \/ \E p1 \in Passwords \cup {WeakPw} : reset_set_password_view(TRUE, p1, p1)

SpecPassword == Init /\ [][NextPassword]_vars

\* the entries of a change-password form: three full-length passwords, one
\* of 8 characters and nothing
ChangeEntries == {p \in Passwords : p <= 3} \cup {ShortPw, EmptyPw}

\* change_password_view alone, by a user who logs in with the right password;
\* the clock steps by one day
NextChange ==
    \/ Tick(MinutesPerDay, MaxDays)
    \/ \E n \in DOMAIN User : login_view(n, current_password(n))
    \/ \E p \in Passwords : reauth_view(p, resp.next)
    \/ \E c \in Passwords, p1 \in ChangeEntries : \E p2 \in {p1, 1} :
           change_password_view(c, p1, p2)

SpecChange == Init /\ [][NextChange]_vars

\* Role management by users who log in with the right password; the clock
\* steps by five minutes
NextRoles ==
    \/ Tick(5, MaxTicks)
    \/ \E n \in DOMAIN User : login_view(n, current_password(n))
    \/ \E n \in Usernames, p1 \in {1, EmptyPw} : register_view(n, p1, 1)
    \/ logout_view
    \/ \E p \in Passwords : reauth_view(p, resp.next)
    \/ \E t \in Usernames, r \in RoleInputs : manage_users_view(t, r)

SpecRoles == Init /\ [][NextRoles]_vars

\* Orders, by users who log in with the right password; the clock steps by
\* five minutes
NextOrders ==
    \/ Tick(5, MaxShopTicks)
    \/ \E n \in Usernames : register_view(n, 1, 1)
    \/ \E n \in DOMAIN User : login_view(n, current_password(n))
    \/ logout_view
    \/ \E p \in {q \in Passwords : q <= 2} : reauth_view(p, resp.next)
    \/ \E s \in Statuses : order_create_view(s, 1)
    \/ \E pk \in OrderIds, s \in Statuses, i \in ItemSets, post \in BOOLEAN :
           order_update_view(pk, s, i, post)
    \/ \E pk \in OrderIds, to \in Statuses : order_status_transition(pk, to)
    \/ \E pk \in OrderIds : order_delete_view(pk)

SpecOrders == Init /\ [][NextOrders]_vars

\* The menu and the audit-log viewer, by users who log in with the right
\* password; the clock steps by five minutes
NextMenu ==
    \/ Tick(5, MaxShopTicks)
    \/ \E n \in Usernames : register_view(n, 1, 1)
    \/ \E n \in DOMAIN User : login_view(n, current_password(n))
    \/ logout_view
    \/ \E p \in {q \in Passwords : q <= 2} : reauth_view(p, resp.next)
    \/ menu_list_view
    \/ \E name \in MenuNames : menu_create_view(name)
    \/ \E pk \in MenuIds, name \in MenuNames : menu_edit_view(pk, name)
    \/ \E pk \in MenuIds, post \in BOOLEAN : menu_delete_view(pk, post)
    \/ admin_logs_view

SpecMenu == Init /\ [][NextMenu]_vars

\* audit_log called with an action text and an extra of the given lengths
audit_log_call(action_len, extra_len) ==
    /\ audit' = <<[user |-> None,
                   action |-> stored_action(action_len, extra_len),
                   status |-> "info",
                   given |-> [action |-> action_len, extra |-> extra_len]]>>
    /\ resp' = Resp("audit_log", "returned", None)
    /\ UNCHANGED <<User, PasswordHistory, cache, session, now, verified_for, pw_log,
                   lock_origin, streak, hpc, hloc, serial, Order, MenuItem, seq>>

NextAudit ==
    \E action_len \in 0..MaxActionLen, extra_len \in 0..MaxExtraLen :
        audit_log_call(action_len, extra_len)

SpecAudit == Init /\ [][NextAudit]_vars

\* Racing failed logins
NextRaceLogin ==
    \/ \E h \in Handlers, n \in Usernames : FailRead(h, n)
    \/ \E h \in Handlers : FailSave(h)

SpecRaceLogin == Init /\ [][NextRaceLogin]_vars

\* Racing role changes: one more administrator exists and the session is that
\* of the first, freshly re-authenticated
InitRace ==
    InitWith(NumInitialUsers + 1,
             [AnonymousSession EXCEPT !.user = 1, !.reauth_at = 0])

NextRaceRoles ==
    \/ \E h \in Handlers, t \in Usernames, r \in Roles : ManageRead(h, t, r)
    \/ \E h \in Handlers : ManageSave(h)

SpecRaceRoles == InitRace /\ [][NextRaceRoles]_vars

\* ================================================================== claims

\* the target and the outcome of the request handled by the last step
Handled(view, outcome) == resp.view = view /\ resp.outcome = outcome

\* C1: in the reset flow the 'verified' flag, when true, was set for the
\* currently stored target, and Step 3 commits a password only for the target
\* whose answer was verified.  (Stated as the claim; the code violates it.)
C1_VerifiedForStoredTarget ==
    /\ (session.pwreset_uid # None /\ session.pwreset_ans_ok)
           => verified_for = session.pwreset_uid
    /\ Handled("reset_set_password", "reset") => verified_for = resp.uid

\* C2: starting from an Open account with counter 0, the k-th failed login in
\* a row leaves the account Open with failed_logins = k while k is below
\* LOCKOUT_MAX_FAILURES, and the LOCKOUT_MAX_FAILURES-th leaves it with
\* failed_logins = 0 and locked_until = time of that failure + cooldown.
C2_LockAfterMaxFailures ==
    \A u \in DOMAIN User :
        /\ streak[u] \in 1..(LOCKOUT_MAX_FAILURES - 1)
               => /\ User[u].failed_logins = streak[u]
                  /\ ~(User[u].locked_until # None /\ now < User[u].locked_until)
        /\ streak[u] = LOCKOUT_MAX_FAILURES
               => /\ User[u].failed_logins = 0
                  /\ User[u].locked_until = cache[u] + LOCKOUT_COOLDOWN_MINUTES

\* C2 witness: the failure that has just been handled was the
\* LOCKOUT_MAX_FAILURES-th in a row and the account is locked.
C2_Witness ==
    /\ Handled("login", "invalid")
    /\ resp.uid \in DOMAIN User
    /\ streak[resp.uid] = LOCKOUT_MAX_FAILURES
    /\ User[resp.uid].locked_until = now + LOCKOUT_COOLDOWN_MINUTES

\* C3: once an account has entered Locked(until), a login with its correct
\* password is denied as locked while now < until and succeeds once
\* now >= until, whatever attempts were made in between.  (Stated as the
\* claim; the code violates it.)
C3_CorrectPasswordAfterUntil ==
    [][\A u \in DOMAIN User :
          (/\ session.user = None
           /\ lock_origin[u] # None
           /\ login_view(u, current_password(u)))
          => resp'.outcome = (IF now < lock_origin[u] THEN "locked" ELSE "success")]_vars

\* C4: a login attempt against an account that is locked leaves its
\* failed_logins and locked_until unchanged.  (Stated as the claim; the code
\* violates it.)
C4_LockedAttemptChangesNothing ==
    [][\A u \in DOMAIN User :
          (/\ User[u].locked_until # None
           /\ now < User[u].locked_until
           /\ resp'.view = "login"
           /\ resp'.uid = u
           /\ resp'.outcome # "redirect_dashboard")
          => /\ User'[u].failed_logins = User[u].failed_logins
             /\ User'[u].locked_until = User[u].locked_until]_vars

\* C5: after a successful authentication the account has failed_logins = 0
\* and locked_until = null.
C5_SuccessResets ==
    Handled("login", "success")
        => /\ User[resp.uid].failed_logins = 0
           /\ User[resp.uid].locked_until = None

\* C5 witness: a successful login that found a non-zero counter and an
\* expired lock, and reset both.
C5_Witness ==
    /\ Handled("login", "success")
    /\ resp.errs = {"failed_logins", "locked_until"}

\* C6: when no failed-login handler is in flight, every account's counter and
\* lock are those a serial execution of the handlers gives.  (Stated as the
\* claim; the code violates it.)
C6_NoLostIncrement ==
    (\A h \in Handlers : hpc[h] = Idle)
        => \A u \in DOMAIN User :
               /\ User[u].failed_logins = serial[u].failed_logins
               /\ User[u].locked_until = serial[u].locked_until

\* C7: at least one account with role admin exists, for every interleaving of
\* role-change requests.  (Stated as the claim; the code violates it.)
C7_AdminExists ==
    \E u \in DOMAIN User : User[u].role = "admin"

\* C8: a role change that would leave no admin is rejected and leaves the
\* target's role, is_staff and is_superuser unchanged.
C8_SoleAdminKept ==
    [][\A t \in DOMAIN User, r \in {"customer", "manager"} :
          (/\ session.user # None
           /\ User[t].role = "admin"
           /\ (\A o \in DOMAIN User : o # t => User[o].role # "admin")
           /\ manage_users_view(t, r))
          => /\ resp'.outcome # "updated"
             /\ User'[t].role = User[t].role
             /\ User'[t].is_staff = User[t].is_staff
             /\ User'[t].is_superuser = User[t].is_superuser]_vars

\* C8 witness: the request to demote the only admin has been rejected.
C8_Witness ==
    /\ Handled("manage_users", "last_admin")
    /\ Cardinality({u \in DOMAIN User : User[u].role = "admin"}) = 1
    /\ Cardinality(DOMAIN User) > 1

\* C9: Step 3 in a session whose target is unset or whose 'verified' flag is
\* not true redirects to Step 1 and changes no password hash, no password
\* history and no password_changed_at.
C9_Step3NeedsPrerequisites ==
    [][(/\ resp'.view = "reset_set_password"
        /\ (session.pwreset_uid = None \/ session.pwreset_ans_ok # TRUE))
       => /\ resp'.outcome = "redirect_reset_start"
          /\ User' = User
          /\ PasswordHistory' = PasswordHistory]_vars

\* C9 witness: Step 3 was invoked with a stored target but without a verified
\* answer, and was redirected.
C9_Witness ==
    /\ Handled("reset_set_password", "redirect_reset_start")
    /\ session.pwreset_uid # None
    /\ ~session.pwreset_ans_ok

\* the raw passwords an account held most recently, the current one included
LastPasswords(u, n) ==
    { pw_log[u][i] : i \in { j \in 1..Len(pw_log[u]) : j > Len(pw_log[u]) - n } }

\* C10: after any password change, a candidate equal to one of the account's
\* last PASSWORD_HISTORY_COUNT passwords is rejected by the reuse check.
\* (Stated as the claim; the code violates it.)
C10_LastNRejected ==
    \A u \in DOMAIN User :
        Len(pw_log[u]) >= 2
            => \A p \in LastPasswords(u, PASSWORD_HISTORY_COUNT) : is_reused_password(u, p)

\* a password change was committed for account u by the last request
Committed(r, u) ==
    /\ r.uid = u
    /\ \/ r.view = "change_password" /\ r.outcome = "changed"
       \/ r.view = "reset_set_password" /\ r.outcome = "reset"

\* C11: a password change (change_password_view or reset Step 3) adds exactly
\* one PasswordHistory entry to the account, holding the hash that was current
\* before the overwrite.  (Stated as the claim; the code violates it.)
C11_OneEntryPerChange ==
    [][\A u \in DOMAIN User :
          Committed(resp', u)
          => UserHistory(u)' = Append(UserHistory(u),
                                      [user |-> u,
                                       password_hash |-> User[u].password,
                                       changed_at |-> now])]_vars

\* a change or reset of account u's password was attempted with the form
\* posted, and answered by the last request
Attempted(r, u) ==
    /\ r.uid = u
    /\ \/ r.view = "change_password" /\ r.outcome \in {"invalid", "changed"}
       \/ r.view = "reset_set_password" /\ r.outcome \in {"invalid", "reset"}

\* C12: a change or reset attempted when now - password_changed_at is below
\* MIN_PASSWORD_AGE_DAYS is rejected and commits nothing; attempted at or after
\* it, the minimum-age rule does not reject it, a change with no violation is
\* accepted, and an accepted change sets password_changed_at to now.
C12_MinimumAge ==
    [][\A u \in DOMAIN User :
          (Attempted(resp', u) /\ User[u].password_changed_at # None)
          => IF now - User[u].password_changed_at < MIN_PASSWORD_AGE_DAYS * MinutesPerDay
             THEN /\ resp'.outcome = "invalid"
                  /\ "changed_recently" \in resp'.errs
                  /\ User' = User
                  /\ PasswordHistory' = PasswordHistory
             ELSE /\ "changed_recently" \notin resp'.errs
                  /\ resp'.errs = {} => Committed(resp', u)
                  /\ Committed(resp', u) => User'[u].password_changed_at = now]_vars

\* C12 witness: a change was accepted for an account that had changed its
\* password before, so the window had passed, and the window restarted.
C12_Witness ==
    /\ resp.uid \in DOMAIN User
    /\ Committed(resp, resp.uid)
    /\ Len(pw_log[resp.uid]) >= 3
    /\ User[resp.uid].password_changed_at = now

\* C13: the minimum-age rule does not reject the first change or reset of an
\* account that has never changed its password, a freshly registered one
\* included.  (Stated as the claim; the code violates it.)
C13_FirstChangeHasNoMinimumAge ==
    [][\A u \in DOMAIN User :
          (Attempted(resp', u) /\ Len(pw_log[u]) = 1)
          => "changed_recently" \notin resp'.errs]_vars

\* C14: no account holds a password that lacks an uppercase letter, a
\* lowercase letter, a digit or a special character.  (Stated as the claim;
\* the code violates it.)
C14_EveryPasswordHasFourClasses ==
    \A u \in DOMAIN User :
        StrongPasswordValidator_validate(current_password(u)) = {}

\* the rules among those of the new-password checks that a candidate and its
\* confirmation violate
PolicyViolations(u, new1, new2) ==
    IF new1 = EmptyPw \/ new2 = EmptyPw THEN {"enter_and_confirm"}
    ELSE (IF new1 # new2 THEN {"mismatch"} ELSE {})
         \cup (IF PwLen(new1) < MinNewPasswordLen THEN {"too_short"} ELSE {})
         \cup (IF is_reused_password(u, new1) THEN {"reused"} ELSE {})

\* C15: the violations reported for a rejected password change contain one
\* entry for each rule the candidate violates.  (Stated as the claim; the
\* code violates it.)
C15_AllViolationsReported ==
    [][(session.user # None /\ resp'.view = "change_password" /\ resp'.outcome = "invalid")
       => \A c \in Passwords, p1 \in PasswordInputs, p2 \in PasswordInputs :
              change_password_view(c, p1, p2)
              => PolicyViolations(session.user, p1, p2) \subseteq resp'.errs]_vars

\* C16: an authentication attempt, whatever its path, records exactly one
\* audit event.  (Stated as the claim; the code violates it.)
C16_OneAuditEventPerAttempt ==
    (resp.view = "login" /\ resp.outcome \in {"invalid", "locked", "success"})
        => Len(Log) = 1

\* C17: a failed login whose username matches no account changes no account's
\* failed_logins or locked_until and no failure-cache entry, and is recorded
\* as an audit event.  (Stated as the claim; the code violates it.)
C17_UnknownUsernameFailure ==
    [][\A n \in Usernames \ DOMAIN User :
          (session.user = None /\ resp'.view = "login" /\ resp'.uid = n)
          => /\ User' = User
             /\ cache' = cache
             /\ Len(Log') >= 1]_vars

\* C18: for an account that is not locked, the response of login_view to a
\* wrong password is the generic invalid-credentials response, the one a
\* username matching no account gets, also on the attempt that locks the
\* account.
C18_WrongPasswordLooksLikeUnknownUser ==
    [][\A n \in Usernames, p \in Passwords :
          (/\ session.user = None
           /\ resp'.view = "login"
           /\ resp'.uid = n
           /\ \/ n \notin DOMAIN User
              \/ /\ ~is_locked_now(User[n])
                 /\ ~check_password(p, User[n].password)
           /\ login_view(n, p))
          => [resp' EXCEPT !.uid = None] = Resp("login", "invalid", None)]_vars

\* C18 witness: the wrong password that locked the account was answered with
\* the generic response.
C18_Witness ==
    /\ Handled("login", "invalid")
    /\ resp.uid \in DOMAIN User
    /\ is_locked_now(User[resp.uid])
    /\ cache[resp.uid] = now

\* C19: reset Step 1 answers with the redirect to Step 2 whatever the
\* username; the stored target becomes the account's id when the account
\* exists and has a security question, and is cleared otherwise.
C19_Step1SameResponse ==
    [][resp'.view = "reset_start"
       => /\ resp'.outcome = "redirect_reset_question"
          /\ resp'.errs = {}
          /\ session'.pwreset_uid =
                 IF resp'.uid \in DOMAIN User
                    /\ User[resp'.uid].security_question # BlankQuestion
                 THEN resp'.uid ELSE None]_vars

\* C19 witness: Step 1 for an existing account without a security question
\* was redirected to Step 2 with no target stored.
C19_Witness ==
    /\ Handled("reset_start", "redirect_reset_question")
    /\ resp.uid \in DOMAIN User
    /\ User[resp.uid].security_question = BlankQuestion
    /\ session.pwreset_uid = None

\* the stored target resolves to an account with a security question
ValidTarget ==
    /\ session.pwreset_uid \in DOMAIN User
    /\ User[session.pwreset_uid].security_question # BlankQuestion

\* C20: reset Step 2 without a valid stored target redirects to Step 1 and
\* leaves the session alone; with a valid target an empty or incorrect answer
\* stays at Step 2 and leaves the session alone, and only the answer stored
\* for the target sets 'verified' and advances to Step 3.
C20_Step2FailsClosed ==
    [][/\ (resp'.view = "reset_question" /\ ~ValidTarget)
           => /\ resp'.outcome = "redirect_reset_start"
              /\ session' = session
       /\ (resp'.view = "reset_question" /\ ValidTarget)
           => \A a \in AnswerInputs :
              reset_question_view(TRUE, a)
              => IF NonEmpty(a)
                    /\ hash_answer(a) = User[session.pwreset_uid].security_answer_hash
                 THEN /\ resp'.outcome = "redirect_reset_set_password"
                      /\ session' = [session EXCEPT !.pwreset_ans_ok = TRUE]
                 ELSE /\ resp'.outcome = "incorrect"
                      /\ session' = session]_vars

\* C20 witness: a wrong answer for a valid target was refused and the flow is
\* not verified.
C20_Witness ==
    /\ Handled("reset_question", "incorrect")
    /\ ValidTarget
    /\ ~session.pwreset_ans_ok

\* C21: a successful Step 3 clears the stored target and the 'verified' flag,
\* so the next Step 3 request of the session is redirected to Step 1; a POST
\* that fails validation leaves the session, the accounts and the password
\* history unchanged.
C21_Step3ClearsOrPreserves ==
    [][resp'.view = "reset_set_password"
       => /\ resp'.outcome = "reset"
                => session'.pwreset_uid = None /\ session'.pwreset_ans_ok = FALSE
          /\ resp'.outcome = "invalid"
                => /\ session' = session
                   /\ User' = User
                   /\ PasswordHistory' = PasswordHistory
          /\ Handled("reset_set_password", "reset")
                => resp'.outcome = "redirect_reset_start"]_vars

\* C21 witness: Step 3 has committed and the session holds neither a target
\* nor the flag.
C21_Witness ==
    /\ Handled("reset_set_password", "reset")
    /\ verified_for = resp.uid
    /\ session.pwreset_uid = None
    /\ ~session.pwreset_ans_ok

\* an answer up to letter case and surrounding blanks
normalized(a) == [a EXCEPT !.upper = FALSE, !.padded = FALSE]

\* C22: at Step 2 an answer is accepted exactly when, after normalizing letter
\* case and surrounding blanks, it is the answer given at setup.  (Stated as
\* the claim; the code violates it.)
C22_AnswerNormalized ==
    [][(resp'.view = "reset_question" /\ ValidTarget)
       => \A a \in AnswerInputs :
              reset_question_view(TRUE, a)
              => (resp'.outcome = "redirect_reset_set_password"
                  <=> /\ NonEmpty(a)
                      /\ normalized(a) =
                           normalized(User[session.pwreset_uid].security_answer_hash[2]))]_vars

\* the views behind require_recent_reauth
GuardedViews == {"manage_users", "change_password", "order_status", "order_delete",
                 "menu_delete"}

\* C23: a guarded view runs iff the session holds a re-auth timestamp ts with
\* now - ts <= REAUTH_TIMEOUT_MINUTES; otherwise the request is redirected to
\* the re-auth prompt and changes no account, order, menu item or password.
C23_ReauthGate ==
    [][resp'.view \in GuardedViews
       => IF session.reauth_at # None /\ now - session.reauth_at <= REAUTH_TIMEOUT_MINUTES
          THEN resp'.outcome # "redirect_reauth"
          ELSE /\ resp'.outcome = "redirect_reauth"
               /\ User' = User
               /\ PasswordHistory' = PasswordHistory
               /\ Order' = Order
               /\ MenuItem' = MenuItem]_vars

\* C23 witness: a guarded view ran when the re-auth was exactly
\* REAUTH_TIMEOUT_MINUTES old.
C23_Witness ==
    /\ resp.view \in GuardedViews
    /\ resp.outcome \in {"deleted", "changed"}
    /\ session.reauth_at # None
    /\ now - session.reauth_at = REAUTH_TIMEOUT_MINUTES

\* C24: the redirect to the re-auth prompt carries the requested destination,
\* a re-auth POST with the current password redirects to the destination it
\* carries, and a POST with any other password stays at the prompt without
\* refreshing the re-auth.
C24_ResumeAfterCorrectPassword ==
    [][/\ resp'.outcome = "redirect_reauth" => resp'.next = resp'.view
       /\ resp'.view = "reauth"
            => \A p \in Passwords :
                   reauth_view(p, resp.next)
                   => IF User[session.user].password = make_password(p)
                      THEN /\ resp'.outcome = "redirect_next"
                           /\ resp'.next = IF resp.next # NoNext THEN resp.next
                                           ELSE "dashboard"
                      ELSE /\ resp'.outcome = "incorrect"
                           /\ session'.reauth_at = session.reauth_at]_vars

\* C24 witness: after the redirect from manage_users_view and a correct
\* password the user is sent back to manage_users_view.
C24_Witness ==
    /\ Handled("reauth", "redirect_next")
    /\ resp.next = "manage_users"
    /\ session.reauth_at = now

\* C25: the re-auth timestamp is written only by a re-auth POST with the
\* user's current password; a POST with another password leaves the session
\* unchanged, and no re-auth POST changes the logged-in user.
C25_ReauthKeepsSession ==
    [][/\ (session'.reauth_at # session.reauth_at /\ session'.reauth_at # None)
            => /\ resp'.view = "reauth"
               /\ resp'.outcome = "redirect_next"
               /\ session'.reauth_at = now
       /\ resp'.view = "reauth"
            => /\ session.user # None
               /\ session'.user = session.user
               /\ \A p \in Passwords :
                      (reauth_view(p, resp.next)
                       /\ User[session.user].password # make_password(p))
                      => session' = session]_vars

\* C25 witness: a re-auth POST with a wrong password left an older timestamp
\* and the login in place.
C25_Witness ==
    /\ Handled("reauth", "incorrect")
    /\ session.user = resp.uid
    /\ session.reauth_at # None
    /\ session.reauth_at < now

\* C26: a request through order_update_view or order_delete_view by a user who
\* is neither manager nor admin nor superuser leaves an order of another
\* customer unchanged.  (Stated as the claim; the code violates it.)
C26_OthersOrdersUntouched ==
    [][\A pk \in DOMAIN Order :
          (/\ session.user # None
           /\ ~(User[session.user].role \in {"manager", "admin"}
                \/ User[session.user].is_superuser)
           /\ Order[pk].customer # session.user
           /\ resp'.view \in {"order_update", "order_delete"}
           /\ resp'.uid = pk)
          => /\ pk \in DOMAIN Order'
             /\ Order'[pk] = Order[pk]]_vars

\* the allow-list of the claim
AllowList(status) ==
    CASE status = "pending" -> {"preparing", "cancelled"}
      [] status = "preparing" -> {"completed", "cancelled"}
      [] OTHER -> {}

\* C27: every change of the status of an existing order follows the
\* allow-list.  (Stated as the claim; the code violates it.)
C27_StatusFollowsAllowList ==
    [][\A pk \in DOMAIN Order :
          (pk \in DOMAIN Order' /\ Order'[pk].status # Order[pk].status)
          => Order'[pk].status \in AllowList(Order[pk].status)]_vars

\* the request answered by r was made by a user without the privilege its
\* view asks for, and was not stopped by the re-auth gate
DeniedForPrivilege(r) ==
    /\ session.user # None
    /\ r.outcome # "redirect_reauth"
    /\ \/ /\ r.view \in {"menu_list", "menu_create", "menu_edit", "menu_delete"}
          /\ ~(User[session.user].role \in {"manager", "admin"}
               \/ User[session.user].is_superuser)
       \/ /\ r.view = "admin_logs"
          /\ User[session.user].role # "admin"
          /\ ~User[session.user].is_superuser

\* C28: a request denied for lack of privilege gets the generic forbidden
\* response, makes an audit call with outcome fail, and changes no menu item,
\* order or account.  (Stated as the claim; the code violates it.)
C28_DenialIsGenericAndAudited ==
    [][DeniedForPrivilege(resp')
       => /\ resp'.outcome = "forbidden"
          /\ \E i \in 1..Len(audit') : audit'[i].status = "fail"
          /\ MenuItem' = MenuItem
          /\ Order' = Order
          /\ User' = User]_vars

\* C29: audit_log never raises: a registration whose audit record could not be
\* written completes as it does with a working audit store (the account is
\* created and logged in), and no request ends in a server error.
C29_AuditFaultSwallowed ==
    [][/\ resp'.outcome # "server_error"
       /\ \A n \in Usernames :
              (/\ session.user = None
               /\ n \notin DOMAIN User
               /\ register_view(n, 1, 1)
               /\ Len(Log') < Len(audit'))
              => /\ resp'.outcome = "created"
                 /\ n \in DOMAIN User'
                 /\ session'.user = n]_vars

\* C29 witness: a registration succeeded although none of its audit records
\* was written.
C29_Witness ==
    /\ Handled("register", "created")
    /\ audit # <<>>
    /\ Log = <<>>
    /\ session.user = resp.uid

DecisiveFaults == StorageFaults \ {"view_lookup"}

\* C31: a login attempt during which a read or a write of the account fails
\* (the lookups of the backend and of on_login_failed, the counter and lock
\* update, the reset on success) ends with an error; it does not log the
\* client in, and it does not end as an ordinary failed attempt whose counter
\* update was left out.  (Stated as the claim; the code violates it.)
C31_StorageFaultAborts ==
    [][resp'.view = "login"
       => \A n \in Usernames, p \in Passwords, f \in DecisiveFaults :
              login_view_storage_fault(n, p, f)
              => /\ resp'.outcome # "success"
                 /\ session'.user = None
                 /\ resp'.outcome # "server_error"
                       => User' = on_login_failed(User, n)]_vars

\* C32: every account's role is customer, manager or admin; an account has
\* role customer right after its registration; and a manage_users_view POST
\* with any other role value changes no account and is answered 'Invalid
\* role.' when it comes from a freshly re-authenticated admin.
C32_RoleEnumerated ==
    [](\A u \in DOMAIN User : User[u].role \in {"customer", "manager", "admin"})
    /\ [][/\ (resp'.view = "register" /\ resp'.outcome = "created")
               => User'[resp'.uid].role = "customer"
          /\ resp'.view = "manage_users"
               => \A t \in Usernames, r \in RoleInputs :
                      (manage_users_view(t, r)
                       /\ r \notin {"customer", "manager", "admin"})
                      => /\ User' = User
                         /\ resp'.outcome # "updated"
                         /\ (reauth_fresh /\ User[session.user].role = "admin")
                               => resp'.outcome = "invalid_role"]_vars

\* C32 witness: an admin's request with an unlisted role was rejected while a
\* registered account exists.
C32_Witness ==
    /\ Handled("manage_users", "invalid_role")
    /\ \E u \in DOMAIN User : u > NumInitialUsers /\ User[u].role = "customer"
    /\ \A u \in DOMAIN User : User[u].role \in {"customer", "manager", "admin"}

\* the conditions of the claim for a change_password_view POST of account u
ChangeAllowed(u, current, new1, new2) ==
    /\ User[u].password = make_password(current)
    /\ \/ User[u].password_changed_at = None
       \/ now - User[u].password_changed_at >= MIN_PASSWORD_AGE_DAYS * MinutesPerDay
    /\ new1 # EmptyPw
    /\ new1 = new2
    /\ PwLen(new1) >= 12
    /\ LET h == UserHistory(u)
       IN ~\E i \in 1..Len(h) :
              /\ i > Len(h) - PASSWORD_HISTORY_COUNT
              /\ h[i].password_hash = make_password(new1)

\* C33: change_password_view commits a new password only if the current
\* password supplied matches the stored hash, the minimum age has elapsed, the
\* two entries match, the length is at least 12 and the candidate is not among
\* the recent history rows; when one of these fails, the accounts (hash and
\* password_changed_at) and the password history are unchanged.
C33_ChangeOnlyWhenAllChecksPass ==
    [][resp'.view = "change_password"
       => \A c \in Passwords, p1 \in ChangeEntries, p2 \in ChangeEntries :
              change_password_view(c, p1, p2)
              => /\ Committed(resp', session.user)
                       => ChangeAllowed(session.user, c, p1, p2)
                 /\ ~ChangeAllowed(session.user, c, p1, p2)
                       => /\ User' = User
                          /\ PasswordHistory' = PasswordHistory]_vars

\* C33 witness: a request whose only fault was the reuse of a recent
\* password was refused.
C33_Witness ==
    /\ Handled("change_password", "invalid")
    /\ resp.errs = {"reused"}
    /\ User[resp.uid].password_changed_at # None
    /\ now - User[resp.uid].password_changed_at >= MIN_PASSWORD_AGE_DAYS * MinutesPerDay

\* the logged-in user is neither manager nor admin nor superuser
NonStaffSession ==
    /\ session.user # None
    /\ User[session.user].role \notin {"manager", "admin"}
    /\ ~User[session.user].is_superuser

\* C34: a non-staff owner's edit or delete of an order that is not pending
\* leaves the orders unchanged, while a pending one is edited by a POST and
\* deleted after a fresh re-auth; and an order created or edited by a non-staff
\* user has status pending right after the request, whatever status was posted.
C34_NonStaffOnlyWhilePending ==
    [][NonStaffSession
       => /\ \A pk \in DOMAIN Order :
                (/\ Order[pk].customer = session.user
                 /\ resp'.view \in {"order_update", "order_delete"}
                 /\ resp'.uid = pk)
                => IF Order[pk].status # "pending"
                   THEN Order' = Order /\ resp'.outcome \in {"not_pending", "redirect_reauth"}
                   ELSE /\ resp'.outcome # "not_pending"
                        /\ resp'.outcome = "deleted" => pk \notin DOMAIN Order'
          /\ ((resp'.view = "order_create" /\ resp'.outcome = "created")
              \/ (resp'.view = "order_update" /\ resp'.outcome = "updated"))
                => Order'[resp'.uid].status = "pending"]_vars

\* C34 witness: the owner's edit of an order that a manager had moved on was
\* refused.
C34_Witness ==
    /\ Handled("order_update", "not_pending")
    /\ NonStaffSession
    /\ Order[resp.uid].customer = session.user
    /\ Order[resp.uid].status # "pending"

\* C35: every account has 0 <= failed_logins < LOCKOUT_MAX_FAILURES: the
\* failure that would bring the counter to the threshold stores 0 with the
\* lock instead.
C35_CounterBelowThreshold ==
    \A u \in DOMAIN User :
        /\ 0 <= User[u].failed_logins
        /\ User[u].failed_logins < LOCKOUT_MAX_FAILURES

\* C35 witness: the failure just handled applied the lock and stored the
\* counter as 0.
C35_Witness ==
    /\ Handled("login", "invalid")
    /\ resp.uid \in DOMAIN User
    /\ cache[resp.uid] = now
    /\ User[resp.uid].locked_until = now + LOCKOUT_COOLDOWN_MINUTES
    /\ User[resp.uid].failed_logins = 0
    /\ \A u \in DOMAIN User : User[u].failed_logins < LOCKOUT_MAX_FAILURES

\* the accounts created by register_view
Registered == { u \in DOMAIN User : u > NumInitialUsers }

\* C36: for every registered account, is_staff holds iff its role is manager
\* or admin and is_superuser holds iff its role is admin; and an account whose
\* role manage_users_view has just set to customer is not privileged for
\* _is_manager.
C36_FlagsFollowRole ==
    /\ \A u \in Registered :
           /\ User[u].is_staff <=> User[u].role \in {"manager", "admin"}
           /\ User[u].is_superuser <=> User[u].role = "admin"
    /\ (Handled("manage_users", "updated") /\ User[resp.uid].role = "customer")
           => ~(User[resp.uid].role \in {"manager", "admin"} \/ User[resp.uid].is_superuser)

\* C36 witness: a registered account that had been made admin (only an admin
\* passes manage_users_view) set its own role to customer and lost both flags.
C36_Witness ==
    /\ Handled("manage_users", "updated")
    /\ resp.uid \in Registered
    /\ resp.uid = session.user
    /\ User[resp.uid].role = "customer"
    /\ ~User[resp.uid].is_staff
    /\ ~User[resp.uid].is_superuser

====
